---- MODULE Spec2Model ----
(***************************************************************************)
(* A model of src/app.py: the credential resolution and model connection   *)
(* done at script start, the news pipeline get_ai_summary with its         *)
(* per-category search and analysis steps, and the normalisation of the    *)
(* price frame into "value of 1000 invested".                              *)
(*                                                                         *)
(* Texts (Python str) are sequences of one-character strings or of opaque  *)
(* tokens; the fixed Korean messages of the source are written as one      *)
(* English token each, with the source line given next to them.            *)
(***************************************************************************)
EXTENDS Integers, Sequences, FiniteSets, TLC

\* pc is the position in the script; GEMINI_API_KEY, model, i, response,
\* found_entry, final_results, df_view and df_value are the variables of
\* the source; yielded logs what each credential source consulted gave, and
\* calls logs the requests made to the feed and to the generation service
VARIABLES pc, GEMINI_API_KEY, yielded, model, i, response, found_entry,
          final_results, calls, df_view, df_value

vars == <<pc, GEMINI_API_KEY, yielded, model, i, response, found_entry,
          final_results, calls, df_view, df_value>>

-----------------------------------------------------------------------------
(* Bounds of the model *)

\* longest key file, in lines
MaxLines == 2
\* longest entry list a feed answers with
MaxEntries == 2
\* longest price series of the trimmed window, in rows
MaxRows == 2

-----------------------------------------------------------------------------
(* Python str helpers *)

Whitespace == {" ", "\n"}

RECURSIVE lstrip(_, _)
lstrip(s, chars) ==
    IF s # <<>> /\ Head(s) \in chars THEN lstrip(Tail(s), chars) ELSE s

RECURSIVE rstrip(_, _)
rstrip(s, chars) ==
    IF s # <<>> /\ s[Len(s)] \in chars
    THEN rstrip(SubSeq(s, 1, Len(s) - 1), chars)
    ELSE s

\* str.strip(chars): leading and trailing characters of the set removed
strip(s, chars) == rstrip(lstrip(s, chars), chars)

\* c in s
Contains(s, c) == \E k \in 1..Len(s) : s[k] = c

\* s.split(c, 1)[1], for an s that contains c: what follows the first c
AfterFirst(s, c) ==
    LET k == CHOOSE j \in 1..Len(s) : s[j] = c /\ \A h \in 1..(j - 1) : s[h] # c
    IN  SubSeq(s, k + 1, Len(s))

\* s.replace(old, new) for one-character old and new
replace(s, old, new) == [k \in 1..Len(s) |-> IF s[k] = old THEN new ELSE s[k]]

\* a key of n characters c
KeyOf(c, n) == [k \in 1..n |-> c]

-----------------------------------------------------------------------------
(* [2] API key load, lines 20-49 *)

\* the token standing for the substring GEMINI_API_KEY of a line
KEYNAME == "GEMINI_API_KEY"

\* a key is used only when longer than this (line 78)
MinKeyLen == 10

RECURSIVE ScanLines(_)
\* the for loop of load_api_key_from_file over the remaining lines
ScanLines(lines) ==
    IF lines = <<>> THEN <<>>
    ELSE LET line == Head(lines)
             stripped == strip(line, Whitespace)
         IN  IF stripped = <<>> \/ Head(stripped) = "#"
             THEN ScanLines(Tail(lines))
             ELSE IF Contains(line, KEYNAME) /\ Contains(line, "=")
                  THEN strip(strip(strip(AfterFirst(line, "="), Whitespace),
                                   {"\""}), {"'"})
                  ELSE ScanLines(Tail(lines))

\* key files: missing, unreadable, or a sequence of lines
load_api_key_from_file(file) ==
    IF file.state = "missing" THEN <<>>
    ELSE IF file.state = "unreadable" THEN <<>>
    ELSE ScanLines(file.lines)

FileLines ==
    { <<"\n">>,
      <<"#", KEYNAME, "=">> \o KeyOf("c", MinKeyLen + 1) \o <<"\n">>,
      <<"x", "=", "y", "\n">>,
      <<KEYNAME, "=", "\n">>,
      <<KEYNAME, " ", "=", " ", "\"">> \o KeyOf("f", MinKeyLen + 1) \o <<"\"", "\n">>,
      <<KEYNAME, "=", "'">> \o KeyOf("f", MinKeyLen) \o <<"'", "\n">>,
      <<KEYNAME, "=">> \o KeyOf("g", 3) \o <<"=", "\n">> }

LineSeqs == UNION { [1..n -> FileLines] : n \in 0..MaxLines }

Files == { [state |-> "missing", lines |-> <<>>],
           [state |-> "unreadable", lines |-> <<>>] }
         \cup { [state |-> "read", lines |-> ls] : ls \in LineSeqs }

\* st.secrets: with or without a GEMINI_API_KEY value
SecretsStores ==
    { [has |-> FALSE, value |-> <<>>] }
    \cup { [has |-> TRUE, value |-> v] :
             v \in { <<" ">>, <<" ">> \o KeyOf("s", MinKeyLen + 1),
                     KeyOf("t", 3) } }

\* what the user types into the sidebar field
InputKeys == { <<>>, <<" ">>, KeyOf("i", MinKeyLen + 1) \o <<" ">>, KeyOf("j", 3) }

Sources == <<"file", "secrets", "input">>

\* line 38
LoadApiKeyFromFile ==
    /\ pc = "load"
    /\ \E file \in Files :
         LET found_key == load_api_key_from_file(file)
         IN  /\ GEMINI_API_KEY' = found_key
             /\ yielded' = <<[src |-> "file", key |-> found_key]>>
    /\ pc' = "secrets"
    /\ UNCHANGED <<model, i, response, found_entry, final_results, calls,
                   df_view, df_value>>

\* lines 40-41
ResolveSecrets_Override ==
    /\ pc = "secrets"
    /\ \E secrets \in SecretsStores :
         IF secrets.has
         THEN /\ GEMINI_API_KEY' = strip(secrets.value, Whitespace)
              /\ yielded' = Append(yielded,
                    [src |-> "secrets", key |-> strip(secrets.value, Whitespace)])
         ELSE /\ yielded' = Append(yielded, [src |-> "secrets", key |-> <<>>])
              /\ UNCHANGED GEMINI_API_KEY
    /\ pc' = "sidebar"
    /\ UNCHANGED <<model, i, response, found_entry, final_results, calls,
                   df_view, df_value>>

ResolveSecrets ==
    /\ pc = "secrets"
    /\ \E secrets \in SecretsStores :
         IF GEMINI_API_KEY = <<>>
         THEN IF secrets.has
              THEN /\ GEMINI_API_KEY' = strip(secrets.value, Whitespace)
                   /\ yielded' = Append(yielded,
                         [src |-> "secrets",
                          key |-> strip(secrets.value, Whitespace)])
              ELSE /\ yielded' = Append(yielded, [src |-> "secrets", key |-> <<>>])
                   /\ UNCHANGED GEMINI_API_KEY
         ELSE UNCHANGED <<GEMINI_API_KEY, yielded>>
    /\ pc' = "sidebar"
    /\ UNCHANGED <<model, i, response, found_entry, final_results, calls,
                   df_view, df_value>>

\* lines 43-49
SidebarInput ==
    /\ pc = "sidebar"
    /\ \E input_key \in InputKeys :
         IF GEMINI_API_KEY = <<>>
         THEN IF input_key # <<>>
              THEN /\ GEMINI_API_KEY' = strip(input_key, Whitespace)
                   /\ yielded' = Append(yielded,
                         [src |-> "input", key |-> strip(input_key, Whitespace)])
              ELSE /\ yielded' = Append(yielded, [src |-> "input", key |-> <<>>])
                   /\ UNCHANGED GEMINI_API_KEY
         ELSE UNCHANGED <<GEMINI_API_KEY, yielded>>
    /\ pc' = "connect"
    /\ UNCHANGED <<model, i, response, found_entry, final_results, calls,
                   df_view, df_value>>

-----------------------------------------------------------------------------
(* [4] AI connection, lines 77-85 *)

\* genai.configure / genai.GenerativeModel return or raise
ConfigureOutcomes == {"ok", "raise"}

ConfigureModel ==
    /\ pc = "connect"
    /\ \E outcome \in ConfigureOutcomes :
         model' = IF GEMINI_API_KEY # <<>> /\ Len(GEMINI_API_KEY) > MinKeyLen
                  THEN IF outcome = "ok" THEN "handle" ELSE "None"
                  ELSE "None"
    /\ pc' = "idle"
    /\ UNCHANGED <<GEMINI_API_KEY, yielded, i, response, found_entry,
                   final_results, calls, df_view, df_value>>

-----------------------------------------------------------------------------
(* [5] News entries and the fixed texts of the pipeline *)

\* the four fixed categories, (label, query), lines 188-193
categories ==
    << [label |-> <<"US real economy">>, query |-> <<"US", " ", "economy", " ", "news">>],
       [label |-> <<"US equities">>,     query |-> <<"US", " ", "stocks">>],
       [label |-> <<"KR real economy">>, query |-> <<"KR", " ", "economy">>],
       [label |-> <<"KR equities">>,     query |-> <<"KR", " ", "stocks">>] >>

total_steps == Len(categories)

\* an object is its class, the attributes it has and their values; an
\* attribute it lacks holds <<>> so that equal objects are equal records
PyNone == [kind |-> "None", attrs |-> {}, title |-> <<>>, link |-> <<>>]

\* the value None of a link attribute
NoneLink == <<"None">>

\* class MockEntry, lines 90-94
MockEntry(title, link) ==
    [kind |-> "MockEntry", attrs |-> {"title", "link"}, title |-> title, link |-> link]

\* an entry of a parsed feed: a dict with any of the keys title and link
FeedEntry(attrs, title, link) ==
    [kind |-> "dict", attrs |-> attrs,
     title |-> IF "title" \in attrs THEN title ELSE <<>>,
     link  |-> IF "link" \in attrs THEN link ELSE <<>>]

hasattr(entry, name) == name \in entry.attrs

\* bool(entry): None is false, a dict is true when it has a key, any other
\* object is true
Truthy(entry) ==
    CASE entry.kind = "None" -> FALSE
      [] entry.kind = "dict" -> entry.attrs # {}
      [] OTHER -> TRUE

HEADLINE == <<"Fed holds rates">>
URL == <<"https://news.example/1">>

LinkValues == {<<>>, <<"#">>, NoneLink, URL}

Entries ==
    { FeedEntry(a, HEADLINE, l) : a \in SUBSET {"title", "link"}, l \in LinkValues }

\* entries that follow the first one in a feed
LaterEntries ==
    { FeedEntry({"title", "link"}, <<"Later headline">>, <<"https://news.example/2">>),
      FeedEntry({"title"}, <<"Later headline">>, <<>>) }

EntryLists ==
    {<<>>} \cup
    { <<e>> \o rest : e \in Entries,
                      rest \in UNION { [1..n -> LaterEntries] : n \in 0..(MaxEntries - 1) } }

\* no request made yet in this iteration
NoResponse == [kind |-> "none", status_code |-> 0, entries |-> <<>>]

\* what requests.get and feedparser.parse do: raise, or answer with a status
\* and a parsed entry list
Responses ==
    { [kind |-> "exception", status_code |-> 0, entries |-> <<>>] }
    \cup { [kind |-> "http", status_code |-> 404, entries |-> es] :
             es \in { <<>>, <<FeedEntry({"title", "link"}, HEADLINE, URL)>> } }
    \cup { [kind |-> "http", status_code |-> 200, entries |-> es] : es \in EntryLists }

\* what model.generate_content and response.text do: raise, or give a text
GenOutcomes ==
    { [kind |-> "exception", text |-> <<"quota exceeded">>] }
    \cup { [kind |-> "text", text |-> t] :
             t \in { <<>>, <<" ", "\n">>, <<" ", "Rates steady, stay put.", "\n">> } }

\* line 122
MSG_NO_DATA_TITLE == <<"no data">>
MSG_LOAD_FAILED == <<"data load failed">>
\* line 127
MSG_NO_TITLE == <<"no title">>
\* line 130
MSG_NO_NEWS == <<"no related recent news found">>
\* line 135
MSG_NO_API_KEY == <<"API key not connected">>
\* line 164
MSG_EMPTY_RESULT == <<"AI produced no analysis, see the article">>
\* line 178
MSG_ANALYSIS_ERROR == <<"error during analysis: ">>
\* lines 240, 243
MSG_SYSTEM_ERROR_TITLE == <<"system error">>
MSG_PROCESSING_FAILED == <<"processing failed: ">>
\* line 229
NotFoundTitle(query) == <<"'">> \o query \o <<"' no related article found">>

ATTRIBUTE_ERROR == <<"AttributeError: title">>

\* line 212-213
rss_url(query) ==
    <<"https://news.google.com/rss/search?q=">> \o replace(query, " ", "+")
    \o <<"&hl=ko&gl=KR&ceid=KR:ko">>

-----------------------------------------------------------------------------
(* analyze_single_news, lines 116-179 *)

AnalysisResult(title, link, category, ai_comment) ==
    [title |-> title, link |-> link, category |-> category, ai_comment |-> ai_comment]

Returns(result, generate_calls) ==
    [raised |-> FALSE, exc |-> <<>>, result |-> result, generate_calls |-> generate_calls]

Raises(exc, generate_calls) ==
    [raised |-> TRUE, exc |-> exc,
     result |-> AnalysisResult(<<>>, <<>>, <<>>, <<>>), generate_calls |-> generate_calls]

\* the link values that mark an entry as a placeholder, line 125
SentinelLinks_NoHash == {<<>>, NoneLink}

SentinelLinks == {<<>>, <<"#">>, NoneLink}

\* the outcome of analyze_single_news((entry, category)) when the model
\* handle is mdl and the generation call, if made, ends as gen
analyze_single_news(entry, category, mdl, gen) ==
    IF entry = PyNone
    THEN Returns(AnalysisResult(MSG_NO_DATA_TITLE, <<"#">>, category, MSG_LOAD_FAILED), 0)
    ELSE IF ~hasattr(entry, "link") \/ entry.link \in SentinelLinks
    THEN Returns(AnalysisResult(
                     IF hasattr(entry, "title") THEN entry.title ELSE MSG_NO_TITLE,
                     <<"#">>, category, MSG_NO_NEWS), 0)
    ELSE IF mdl = "None"
    THEN IF hasattr(entry, "title")
         THEN Returns(AnalysisResult(entry.title, entry.link, category, MSG_NO_API_KEY), 0)
         ELSE Raises(ATTRIBUTE_ERROR, 0)
    ELSE \* the try block: the prompt reads entry.title before the call is
         \* made, and the except handler reads it again
         IF ~hasattr(entry, "title")
         THEN Raises(ATTRIBUTE_ERROR, 0)
         ELSE IF gen.kind = "exception"
         THEN Returns(AnalysisResult(entry.title, entry.link, category,
                                     MSG_ANALYSIS_ERROR \o gen.text), 1)
         ELSE LET result_text == strip(gen.text, Whitespace)
              IN  Returns(AnalysisResult(entry.title, entry.link, category,
                              IF result_text = <<>> THEN MSG_EMPTY_RESULT
                              ELSE result_text), 1)

-----------------------------------------------------------------------------
(* get_ai_summary, lines 181-246 *)

\* lines 218-221: the first entry of a 200 answer with entries, else None
FirstHit(resp) ==
    IF resp.kind = "http" /\ resp.status_code = 200 /\ resp.entries # <<>>
    THEN resp.entries[1]
    ELSE PyNone

\* lines 228-229
InjectMock(entry, query) ==
    IF ~Truthy(entry) THEN MockEntry(NotFoundTitle(query), <<"#">>) ELSE entry

\* line 216: the one requests.get of an iteration, as the log records it
Fetched_Twice(log, cat, query) ==
    LET call == [op |-> "fetch", cat |-> cat, query |-> query, arg |-> rss_url(query)]
    IN  Append(Append(log, call), call)

Fetched(log, cat, query) ==
    Append(log, [op |-> "fetch", cat |-> cat, query |-> query, arg |-> rss_url(query)])

\* line 160: the generate_content calls of one analysis, as the log records them
Generated_Retry(log, cat, n) ==
    LET call == [op |-> "generate", cat |-> cat, query |-> <<>>, arg |-> <<>>]
    IN  IF n = 0 THEN log ELSE Append(Append(log, call), call)

Generated(log, cat, n) ==
    IF n = 0 THEN log
    ELSE Append(log, [op |-> "generate", cat |-> cat, query |-> <<>>, arg |-> <<>>])

\* lines 239-244
SystemErrorResult_NoCategory(category, e) ==
    AnalysisResult(MSG_SYSTEM_ERROR_TITLE, <<"#">>, <<>>, MSG_PROCESSING_FAILED \o e)

SystemErrorResult(category, e) ==
    AnalysisResult(MSG_SYSTEM_ERROR_TITLE, <<"#">>, category, MSG_PROCESSING_FAILED \o e)

\* lines 232-244: the result of the analysis, or the error box, is appended
Collect_DropOnError(results, outcome, category) ==
    IF outcome.raised THEN results ELSE Append(results, outcome.result)

Collect(results, outcome, category) ==
    Append(results,
           IF outcome.raised THEN SystemErrorResult(category, outcome.exc)
           ELSE outcome.result)

\* line 312: the button is pressed and get_ai_summary starts, lines 195-202
PressButton ==
    /\ pc = "idle"
    /\ final_results' = <<>>
    /\ i' = 1
    /\ pc' = "search"
    /\ UNCHANGED <<GEMINI_API_KEY, yielded, model, response, found_entry, calls,
                   df_view, df_value>>

\* lines 204-229: the search of category i
Search ==
    /\ pc = "search"
    /\ \E resp \in Responses :
         /\ response' = resp
         /\ found_entry' = InjectMock(FirstHit(resp), categories[i].query)
    /\ calls' = Fetched(calls, i, categories[i].query)
    /\ pc' = "analyze"
    /\ UNCHANGED <<GEMINI_API_KEY, yielded, model, i, final_results,
                   df_view, df_value>>

\* lines 231-244, then the next iteration (line 208) or the return (line 246)
Analyze ==
    /\ pc = "analyze"
    /\ \E gen \in GenOutcomes :
         LET outcome == analyze_single_news(found_entry, categories[i].label, model, gen)
         IN  /\ final_results' = Collect(final_results, outcome, categories[i].label)
             /\ calls' = Generated(calls, i, outcome.generate_calls)
    /\ found_entry' = PyNone
    /\ response' = NoResponse
    /\ i' = i + 1
    /\ pc' = IF i = total_steps THEN "done" ELSE "search"
    /\ UNCHANGED <<GEMINI_API_KEY, yielded, model, df_view, df_value>>

-----------------------------------------------------------------------------
(* [6] Price frame and its normalisation, lines 270-306 *)

\* a float is a pair <<numerator, denominator>>; denominator 0 is NaN
NaN == <<0, 0>>
IsNaN(x) == x[2] = 0
Num(n) == <<n, 1>>
IsZero(x) == ~IsNaN(x) /\ x[1] = 0

\* x / y for a y that is NaN or not zero
Div(x, y) == IF IsNaN(x) \/ IsNaN(y) THEN NaN ELSE <<x[1] * y[2], x[2] * y[1]>>

\* x * n for an integer n
Times(x, n) == IF IsNaN(x) THEN NaN ELSE <<x[1] * n, x[2]>>

\* the two floats are numbers and equal
SameNumber(x, y) == ~IsNaN(x) /\ ~IsNaN(y) /\ x[1] * y[2] = y[1] * x[2]

\* line 286
initial_investment == 1000

\* line 281
cols_to_plot == {"TIGER 200 (KR)", "QQQ (US Nasdaq)", "SPY (US S&P500)"}

Frame(cols, rows, data) == [cols |-> cols, rows |-> rows, data |-> data]

\* DataFrame.empty: no column or no row
IsEmpty(df) == df.cols = {} \/ df.rows = 0

\* closing prices, a missing one is NaN after the forward fill when it leads
Prices == {NaN, Num(0), Num(1), Num(3)}
\* exchange rates
Rates == {Num(1), Num(2)}

ColumnSets ==
    { {}, {"QQQ (US Nasdaq)"}, {"TIGER 200 (KR)", "QQQ (US Nasdaq)"},
      {"TIGER 200 (KR)", "USD/KRW"} }

\* the frames of the trimmed window, line 276, with columns cs and n rows
Frames(cs, n) == { Frame(cs, n, d) : d \in [cs -> [1..n -> Prices \cup Rates]] }

\* the exchange rate is never missing or zero
WellFormed(df) ==
    "USD/KRW" \in df.cols => \A k \in 1..df.rows : df.data["USD/KRW"][k] \in Rates

\* the scenario of the specification, one instrument over seven days
ScenarioFrame ==
    Frame({"SPY (US S&P500)"}, 7,
          [c \in {"SPY (US S&P500)"} |->
             <<Num(100), Num(102), Num(99), Num(101), Num(105), Num(98), Num(103)>>])

\* lines 278-279
ConvertToUSD(df, use_usd_base) ==
    IF use_usd_base /\ "USD/KRW" \in df.cols /\ "TIGER 200 (KR)" \in df.cols
    THEN Frame(df.cols, df.rows,
               [c \in df.cols |->
                  IF c = "TIGER 200 (KR)"
                  THEN [k \in 1..df.rows |-> Div(df.data[c][k], df.data["USD/KRW"][k])]
                  ELSE df.data[c]])
    ELSE df

\* lines 281-283
SelectColumns(df) ==
    LET cs == df.cols \cap cols_to_plot
    IN  Frame(cs, df.rows, [c \in cs |-> df.data[c]])

\* line 287: df_view.iloc[0].replace(0, 1)
FirstRow_NoReplace(df) == [c \in df.cols |-> df.data[c][1]]

FirstRow(df) ==
    [c \in df.cols |-> IF IsZero(df.data[c][1]) THEN Num(1) ELSE df.data[c][1]]

\* line 288: (df_view / first_row) * initial_investment
Normalize(df) ==
    LET first_row == FirstRow(df)
    IN  Frame(df.cols, df.rows,
              [c \in df.cols |->
                 [k \in 1..df.rows |->
                    Times(Div(df.data[c][k], first_row[c]), initial_investment)]])

\* lines 271-283: the frame is fetched, trimmed, converted and cut to the
\* plotted columns
SelectView ==
    /\ pc = "chart"
    /\ \E cs \in ColumnSets, n \in 0..MaxRows, use_usd_base \in BOOLEAN :
       \E df \in Frames(cs, n) \cup (IF cs = {} /\ n = 0 THEN {ScenarioFrame} ELSE {}) :
         /\ WellFormed(df)
         /\ df_view' = SelectColumns(ConvertToUSD(df, use_usd_base))
    /\ pc' = "normalize"
    /\ UNCHANGED <<GEMINI_API_KEY, yielded, model, i, response, found_entry,
                   final_results, calls, df_value>>

\* lines 285-288
NormalizeView ==
    /\ pc = "normalize"
    /\ ~IsEmpty(df_view)
    /\ df_value' = Normalize(df_view)
    /\ pc' = "charted"
    /\ UNCHANGED <<GEMINI_API_KEY, yielded, model, i, response, found_entry,
                   final_results, calls, df_view>>

\* lines 303-304
WarnNoData ==
    /\ pc = "normalize"
    /\ IsEmpty(df_view)
    /\ pc' = "warned"
    /\ UNCHANGED <<GEMINI_API_KEY, yielded, model, i, response, found_entry,
                   final_results, calls, df_view, df_value>>

-----------------------------------------------------------------------------
(* The script, top to bottom *)

EmptyFrame == Frame({}, 0, <<>>)

Init ==
    /\ pc = "load"
    /\ GEMINI_API_KEY = <<>>
    /\ yielded = <<>>
    /\ model = "unset"
    /\ i = 0
    /\ response = NoResponse
    /\ found_entry = PyNone
    /\ final_results = <<>>
    /\ calls = <<>>
    /\ df_view = EmptyFrame
    /\ df_value = EmptyFrame

Next ==
    \/ LoadApiKeyFromFile
    \/ ResolveSecrets
    \/ SidebarInput
    \/ ConfigureModel
    \/ PressButton
    \/ Search
    \/ Analyze

Spec == Init /\ [][Next]_vars

\* the chart column of the page alone, which shares no state with the news
\* column
InitChart ==
    /\ pc = "chart"
    /\ GEMINI_API_KEY = <<>>
    /\ yielded = <<>>
    /\ model = "unset"
    /\ i = 0
    /\ response = NoResponse
    /\ found_entry = PyNone
    /\ final_results = <<>>
    /\ calls = <<>>
    /\ df_view = EmptyFrame
    /\ df_value = EmptyFrame

NextChart ==
    \/ SelectView
    \/ NormalizeView
    \/ WarnNoData

SpecChart == InitChart /\ [][NextChart]_vars

-----------------------------------------------------------------------------
(* Properties *)

FetchesOf(c) == SelectSeq(calls, LAMBDA x : x.op = "fetch" /\ x.cat = c)
GeneratesOf(c) == SelectSeq(calls, LAMBDA x : x.op = "generate" /\ x.cat = c)

\* the text q occurs in the text t
Embeds(t, q) ==
    \E a \in 1..Len(t) :
        a + Len(q) - 1 <= Len(t) /\ SubSeq(t, a, a + Len(q) - 1) = q

\* the answer of the feed is a failure: raised, not 200, or no entry
FetchFailed == response.kind = "exception" \/ response.status_code # 200
               \/ response.entries = <<>>

\* the item at hand is a found one: it has a link that is no sentinel
IsFound(entry) ==
    "link" \in entry.attrs /\ entry.link \notin {<<>>, <<"#">>, <<"None">>}

\* analyze_single_news raises on the item at hand
AnalyzerRaises ==
    \E gen \in GenOutcomes :
        analyze_single_news(found_entry, categories[i].label, model, gen).raised

\* C1: get_ai_summary returns exactly four results, the k-th carrying the
\* k-th category label, whatever the fetches and generation calls did; while
\* it runs, the results so far are those of the categories done, in order.
C1_FourResultsInOrder ==
    /\ Len(final_results) <= 4
    /\ \A k \in 1..Len(final_results) :
         final_results[k].category = categories[k].label
    /\ pc = "done" =>
         [k \in 1..Len(final_results) |-> final_results[k].category]
           = << <<"US real economy">>, <<"US equities">>,
                <<"KR real economy">>, <<"KR equities">> >>

\* a finished run with a placeholder, a failed generation call and an error box
C1_Witness ==
    /\ pc = "done"
    /\ \E k \in 1..Len(final_results) : final_results[k].ai_comment = MSG_NO_NEWS
    /\ \E k \in 1..Len(final_results) :
         final_results[k].ai_comment = MSG_ANALYSIS_ERROR \o <<"quota exceeded">>
    /\ \E k \in 1..Len(final_results) :
         final_results[k].title = MSG_SYSTEM_ERROR_TITLE

C3_PlaceholderShortCircuit ==
    [][ (pc = "analyze" /\ ~IsFound(found_entry)) =>
          /\ calls' = calls
          /\ Len(final_results') = Len(final_results) + 1
          /\ final_results'[Len(final_results')].ai_comment
               = <<"no related recent news found">>
          /\ final_results'[Len(final_results')].link = <<"#">>
          /\ final_results'[Len(final_results')].category = categories[i].label ]_vars

\* a feed entry with sentinel link "#" answered so while a model is configured
C3_Witness ==
    /\ model = "handle"
    /\ \E k \in 1..Len(final_results) :
         /\ final_results[k].ai_comment = MSG_NO_NEWS
         /\ final_results[k].title = HEADLINE
    /\ \E k \in 1..Len(final_results) :
         /\ final_results[k].ai_comment = MSG_NO_NEWS
         /\ final_results[k].title = MSG_NO_TITLE

\* C4: analyze_single_news returns a result for every item, model
\* configuration and generation outcome; it never raises.
C4_AnalyzerNeverRaises ==
    pc = "analyze" => ~AnalyzerRaises

\* C5: the item handed to the analyzer is the placeholder (link "#", title
\* embedding the query) when the fetch raised, was not 200 or had no entry,
\* and is the first entry of the feed otherwise.
C5_SearchPassesFirstEntry ==
    pc = "analyze" =>
        IF FetchFailed
        THEN /\ found_entry.kind = "MockEntry"
             /\ found_entry.link = <<"#">>
             /\ Embeds(found_entry.title, categories[i].query)
        ELSE found_entry = response.entries[1]

\* C6: without a model no generation call is made, and every found item is
\* answered with its own title and link and the fixed "API key not
\* connected" commentary.
C6_DegradedMode ==
    [][ (pc = "analyze" /\ model = "None") =>
          /\ calls' = calls
          /\ IsFound(found_entry) =>
               final_results' = Append(final_results,
                   [title |-> found_entry.title, link |-> found_entry.link,
                    category |-> categories[i].label,
                    ai_comment |-> <<"API key not connected">>]) ]_vars

\* C7: the sources are consulted in the order file, secrets, input; a source
\* is consulted only when every earlier one yielded an empty key; the key is
\* the first non-empty yield, or empty when there is none.
C7_FirstNonEmptyWins ==
    /\ Len(yielded) <= Len(Sources)
    /\ \A k \in 1..Len(yielded) :
         /\ yielded[k].src = Sources[k]
         /\ \A h \in 1..(k - 1) : yielded[h].key = <<>>
    /\ pc \notin {"load"} =>
         /\ Len(yielded) >= 1
         /\ GEMINI_API_KEY = yielded[Len(yielded)].key
    /\ pc \notin {"load", "secrets", "sidebar"} =>
         (GEMINI_API_KEY = <<>> => Len(yielded) = Len(Sources))

\* the file yields no key, the secrets store does, and the input is not asked
C7_Witness ==
    /\ pc = "idle"
    /\ Len(yielded) = 2
    /\ yielded[1].key = <<>>
    /\ yielded[2].key # <<>>
    /\ GEMINI_API_KEY = yielded[2].key

\* the k-th value of column c of the normalised frame is v / first * 1000
Scaled(c, k, first) ==
    LET v == df_view.data[c][k]
        out == df_value.data[c][k]
    IN  /\ ~IsNaN(out)
        /\ out[1] * v[2] * first[1] = v[1] * first[2] * 1000 * out[2]

\* C8 as stated: every normalised value of a series of numbers is
\* value / first value * 1000, a zero first value counting as 1, and the
\* normalised series starts at 1000 exactly.
C8_FirstElementIsNotional ==
    pc = "charted" =>
        \A c \in df_view.cols :
            (\A k \in 1..df_view.rows : ~IsNaN(df_view.data[c][k])) =>
                /\ SameNumber(df_value.data[c][1], Num(1000))
                /\ \A k \in 1..df_view.rows :
                     Scaled(c, k, IF IsZero(df_view.data[c][1]) THEN Num(1)
                                  ELSE df_view.data[c][1])

\* C8 as amended: every normalised value is value / first value * 1000, a
\* zero first value counting as 1; the series starts at 1000 exactly when
\* its first value is a number other than zero, and at 0 when it is zero; a
\* missing value stays missing and a missing first value makes the whole
\* series missing. The seven-day scenario yields 1000, 1020, 990, 1010,
\* 1050, 980, 1030.
C8_Normalization ==
    pc = "charted" =>
        /\ df_value.cols = df_view.cols /\ df_value.rows = df_view.rows
        /\ \A c \in df_view.cols :
             LET first == df_view.data[c][1]
             IN  /\ \A k \in 1..df_view.rows :
                      IF IsNaN(first) \/ IsNaN(df_view.data[c][k])
                      THEN IsNaN(df_value.data[c][k])
                      ELSE Scaled(c, k, IF first[1] = 0 THEN Num(1) ELSE first)
                 /\ (~IsNaN(first) /\ first[1] # 0) =>
                      SameNumber(df_value.data[c][1], Num(1000))
                 /\ (~IsNaN(first) /\ first[1] = 0) =>
                      SameNumber(df_value.data[c][1], Num(0))
        /\ df_view = ScenarioFrame =>
             \A k \in 1..7 :
                 SameNumber(df_value.data["SPY (US S&P500)"][k],
                            Num(<<1000, 1020, 990, 1010, 1050, 980, 1030>>[k]))

\* a normalised frame with a series that starts at zero and one that does not
C8_Witness ==
    /\ pc = "charted"
    /\ \E c \in df_view.cols :
         /\ IsZero(df_view.data[c][1])
         /\ df_view.rows >= 2
         /\ SameNumber(df_value.data[c][2], Num(3000))
    /\ \E c \in df_view.cols :
         /\ SameNumber(df_view.data[c][1], Num(3))
         /\ SameNumber(df_value.data[c][1], Num(1000))

\* C9: when analyze_single_news raises for a category, the system-error
\* result of that category (title "system error", link "#", the category,
\* commentary embedding the exception) is appended behind the results so
\* far, which stay as they are, and the loop goes on with the next category.
C9_IsolatedFailure ==
    [][ (pc = "analyze" /\ AnalyzerRaises) =>
          /\ final_results' = Append(final_results,
                 [title |-> <<"system error">>, link |-> <<"#">>,
                  category |-> categories[i].label,
                  ai_comment |-> <<"processing failed: ">> \o ATTRIBUTE_ERROR])
          /\ i' = i + 1
          /\ pc' = IF i < 4 THEN "search" ELSE "done" ]_vars

\* an error box followed by the result of a later category
C9_Witness ==
    \E k \in 1..Len(final_results) :
        /\ final_results[k].title = MSG_SYSTEM_ERROR_TITLE
        /\ k < Len(final_results)
        /\ final_results[k + 1].title = HEADLINE
        /\ k > 1 /\ final_results[k - 1].title = HEADLINE

\* C10: each category is fetched exactly once and generated for at most
\* once, whatever the outcomes, and its fetch comes before its generation
\* call.
C10_NoRetry ==
    /\ \A c \in 1..Len(categories) :
         /\ Len(FetchesOf(c)) =
              (IF pc \in {"search", "analyze", "done"}
                  /\ (c < i \/ (c = i /\ pc = "analyze"))
               THEN 1 ELSE 0)
         /\ Len(GeneratesOf(c)) <= 1
    /\ \A p \in 1..Len(calls) :
         calls[p].op = "generate" =>
             \E q \in 1..(p - 1) : calls[q].op = "fetch" /\ calls[q].cat = calls[p].cat
    /\ \A p \in 1..Len(calls) : calls[p].cat \in 1..Len(categories)

\* a finished run in which a fetch failed and a generation call failed
C10_Witness ==
    /\ pc = "done"
    /\ \E k \in 1..Len(final_results) :
         /\ final_results[k].ai_comment = MSG_ANALYSIS_ERROR \o <<"quota exceeded">>
         /\ Len(GeneratesOf(k)) = 1
    /\ \E k \in 1..Len(final_results) :
         /\ final_results[k].title = NotFoundTitle(categories[k].query)
         /\ Len(GeneratesOf(k)) = 0
         /\ Len(FetchesOf(k)) = 1

====
